---- MODULE Spec2Model ----
(***************************************************************************)
(* Model of pyfesom2/accessor.py: spatial selection on an unstructured     *)
(* triangular mesh (select_bbox, select_region, select_points, select),    *)
(* the distance helpers and the xarray accessors with their cached         *)
(* nearest-neighbour tree.                                                 *)
(*                                                                         *)
(* Arrays are sequences (1-based positions) whose entries keep the         *)
(* program's 0-based index values.  An xarray object is a record:          *)
(*   kind      "Dataset" or "DataArray"                                    *)
(*   data      the payload along nod2 (the original node ids)              *)
(*   lon, lat  the node coordinates along nod2                             *)
(*   hasFaces  whether a 'faces' coordinate is attached                    *)
(*   faces     its value, rows of three node positions                     *)
(*   dist      the 'distance' coordinate (present, units, values)          *)
(*   ops       label selections (.sel) applied to it, in order             *)
(***************************************************************************)
EXTENDS Integers, Sequences, FiniteSets, TLC

VARIABLES xr_dataset, _tree_obj, ntrees, queried, pc, call, ret

vars == <<xr_dataset, _tree_obj, ntrees, queried, pc, call, ret>>

(* ---------------- bounds ---------------- *)
NumNodes == 4
MaxFaces == 2
MaxRows == 2
MaxIndex == 2
MaxLen == 3
MaxTraj == 2
MaxPts == 2
MaxTrees == 3

(* ---------------- numpy helpers ---------------- *)
Nodes == 0 .. (NumNodes - 1)

None == [none |-> TRUE, val |-> <<>>]

Some(v) == [none |-> FALSE, val |-> v]

SetMin(S) == CHOOSE m \in S : \A x \in S : m <= x

RECURSIVE SortedSeq(_)
SortedSeq(S) == IF S = {} THEN <<>>
                ELSE LET m == SetMin(S) IN <<m>> \o SortedSeq(S \ {m})

Range(s) == {s[i] : i \in 1 .. Len(s)}

ravel(a) == [k \in 1 .. 3 * Len(a) |-> a[((k - 1) \div 3) + 1][((k - 1) % 3) + 1]]

reshape(flat, nrows) == [r \in 1 .. nrows |->
                           <<flat[3 * (r - 1) + 1], flat[3 * (r - 1) + 2], flat[3 * (r - 1) + 3]>>]

count_nonzero(mask) == Cardinality({i \in 1 .. Len(mask) : mask[i]})

RECURSIVE SelectRows(_, _)
SelectRows(a, mask) == IF a = <<>> THEN <<>>
                       ELSE (IF Head(mask) THEN <<Head(a)>> ELSE <<>>)
                            \o SelectRows(Tail(a), Tail(mask))

(* np.unique(flat, return_inverse=True): the sorted distinct values and,   *)
(* for every entry of flat, the 0-based position of its value in them.      *)
position_onebased(uniq, v) == CHOOSE k \in 1 .. Len(uniq) : uniq[k] = v
position(uniq, v) == (CHOOSE k \in 1 .. Len(uniq) : uniq[k] = v) - 1

np_unique(flat) == LET uniq == SortedSeq(Range(flat))
                   IN  [uniq |-> uniq,
                        inv_index |-> [k \in 1 .. Len(flat) |-> position(uniq, flat[k])]]

(* uniq, inv_index = np.unique(cut_faces.ravel(), return_inverse=True)      *)
(* new_faces = inv_index.reshape(cut_faces.shape)                           *)
compact(cut_faces) == LET u == np_unique(ravel(cut_faces))
                      IN  [uniq |-> u.uniq,
                           new_faces |-> reshape(u.inv_index, Len(cut_faces))]

(* ---------------- xarray objects ---------------- *)
NoDist == [present |-> FALSE, units |-> "", values |-> [shape |-> <<0>>, a |-> <<>>]]

isel(obj, idx) == [obj EXCEPT !.data = [k \in 1 .. Len(idx) |-> obj.data[idx[k] + 1]],
                              !.lon = [k \in 1 .. Len(idx) |-> obj.lon[idx[k] + 1]],
                              !.lat = [k \in 1 .. Len(idx) |-> obj.lat[idx[k] + 1]]]

to_dataset(obj) == [obj EXCEPT !.kind = "Dataset"]

drop_faces(obj) == [obj EXCEPT !.hasFaces = FALSE, !.faces = <<>>]

assign_faces(obj, new_faces) == [obj EXCEPT !.hasFaces = TRUE, !.faces = new_faces]

NoObj == [kind |-> "", data |-> <<>>, lon |-> <<>>, lat |-> <<>>,
          hasFaces |-> FALSE, faces |-> <<>>, dist |-> NoDist, ops |-> <<>>]

Raise(err, calls) == [status |-> "error", error |-> err, warnings |-> <<>>, obj |-> NoObj,
                      calls |-> calls, built |-> 0, usedtree |-> 0]

Return(obj, warnings, calls) == [status |-> "ok", error |-> "", warnings |-> warnings, obj |-> obj,
                                 calls |-> calls, built |-> 0, usedtree |-> 0]

(* faces = getattr(xr_obj, "faces", faces) *)
getfaces(obj, faces) == IF obj.hasFaces THEN Some(obj.faces) ELSE faces

(* ---------------- regions ---------------- *)
(* A bounding box is <<minlon, minlat, maxlon, maxlat>>; a polygon is the   *)
(* set of points shapely reports as contained in it.                        *)
Box(b) == [type |-> "box", bbox |-> b, pts |-> {}]
Poly(S) == [type |-> "polygon", bbox |-> <<0, 0, 0, 0>>, pts |-> S]
OtherRegion == [type |-> "other", bbox |-> <<0, 0, 0, 0>>, pts |-> {}]
NoRegion == [type |-> "none", bbox |-> <<0, 0, 0, 0>>, pts |-> {}]

(* vectorized_contains(prep(region.buffer(1e-6)), lon, lat) *)
contains(region, lon, lat) ==
    [i \in 1 .. Len(lon) |->
        IF region.type = "box"
        THEN /\ region.bbox[1] <= lon[i] /\ lon[i] <= region.bbox[3]
             /\ region.bbox[2] <= lat[i] /\ lat[i] <= region.bbox[4]
        ELSE <<lon[i], lat[i]>> \in region.pts]

(* ut.cut_region(mesh, [left, right, down, up]): the faces whose three     *)
(* vertices all satisfy the box bounds.                                     *)
cut_region(x2, y2, elem, box) ==
    LET selection == [i \in 1 .. Len(x2) |-> /\ x2[i] >= box[1] /\ x2[i] <= box[2]
                                             /\ y2[i] >= box[3] /\ y2[i] <= box[4]]
    IN  SelectRows(elem, [r \in 1 .. Len(elem) |-> \A c \in 1 .. 3 : selection[elem[r][c] + 1]])

(* ---------------- select_bbox ---------------- *)
bbox_to_cut(bbox) == <<bbox[1], bbox[3], bbox[2], bbox[4]>>

select_bbox(xr_obj, bbox, faces_arg) ==
    LET faces == getfaces(xr_obj, faces_arg)
    IN  IF faces.none THEN Raise("ValueError", <<>>)
        ELSE LET cut_faces == cut_region(xr_obj.lon, xr_obj.lat, faces.val, bbox_to_cut(bbox))
                 c == compact(cut_faces)
                 sub == isel(xr_obj, c.uniq)
                 ds == IF xr_obj.kind = "DataArray" THEN to_dataset(sub) ELSE sub
             IN  Return(assign_faces(ds, c.new_faces), <<>>, <<>>)

(* ---------------- select_region ---------------- *)
NoPointsInRegion_never(selection) == FALSE
NoPointsInRegion(selection) == count_nonzero(selection) = 0

face_mask_any(selection, faces) == [r \in 1 .. Len(faces) |-> \E c \in 1 .. 3 : selection[faces[r][c] + 1]]
face_mask(selection, faces) == [r \in 1 .. Len(faces) |-> \A c \in 1 .. 3 : selection[faces[r][c] + 1]]

NoFacesFound_never(uniq) == FALSE
NoFacesFound(uniq) == Len(uniq) = 0

select_region(xr_obj, region, faces_arg) ==
    IF region.type \notin {"box", "polygon"} THEN Raise("ValueError", <<>>)
    ELSE LET faces == getfaces(xr_obj, faces_arg)
         IN  IF faces.none THEN Raise("ValueError", <<>>)
             ELSE LET selection == contains(region, xr_obj.lon, xr_obj.lat)
                  IN  IF NoPointsInRegion(selection)
                      THEN Return(xr_obj, <<"No points in domain are within region">>, <<>>)
                      ELSE LET cut_faces == SelectRows(faces.val, face_mask(selection, faces.val))
                               c == compact(cut_faces)
                               sub == isel(xr_obj, c.uniq)
                               nofaces == IF sub.hasFaces THEN drop_faces(sub) ELSE sub
                           IN  IF NoFacesFound(c.uniq)
                               THEN Return(nofaces, <<"No found points are contained in faces">>, <<>>)
                               ELSE LET ds == IF xr_obj.kind = "DataArray"
                                              THEN to_dataset(nofaces) ELSE nofaces
                                    IN  Return(assign_faces(ds, c.new_faces), <<>>, <<>>)

(* ---------------- distances ---------------- *)
(* An array of floats is [shape |-> <<n>>, a |-> ..] (1-D) or               *)
(* [shape |-> <<r, n>>, a |-> ..] (2-D), a being the entries in row-major   *)
(* order.  A float is kept exact as the fraction [num, den].                *)
Rat(x) == [num |-> x, den |-> 1]

RECURSIVE to_floats(_)
to_floats(ints) == IF ints = <<>> THEN <<>> ELSE <<Rat(Head(ints))>> \o to_floats(Tail(ints))

RECURSIVE cumsum(_, _)
cumsum(steps, acc) == IF steps = <<>> THEN <<>>
                      ELSE <<acc + Head(steps)>> \o cumsum(Tail(steps), acc + Head(steps))

RECURSIVE cumsum_rows(_)
cumsum_rows(rows) == IF rows = <<>> THEN <<>>
                     ELSE (<<0>> \o cumsum(Head(rows), 0)) \o cumsum_rows(Tail(rows))

(* temp_dist is what geod.inverse(points[0:-1], points[1:])[:, 0] gave:     *)
(* the step lengths of the trajectory (1-D input), or one such row per      *)
(* trajectory (2-D input).                                                  *)
distance_along_trajectory(ndim, temp_dist) ==
    IF ndim = 1
    THEN [shape |-> <<Len(temp_dist) + 1>>, a |-> to_floats(<<0>> \o cumsum(temp_dist, 0))]
    ELSE [shape |-> <<Len(temp_dist), Len(temp_dist[1]) + 1>>,
          a |-> to_floats(cumsum_rows(temp_dist))]

divide(q, d) == [num |-> q.num, den |-> q.den * d]

less_than(q, n) == q.num < n * q.den

RECURSIVE divide_all(_, _)
divide_all(a, d) == IF a = <<>> THEN <<>>
                    ELSE <<divide(Head(a), d)>> \o divide_all(Tail(a), d)

normalize_distance(distance_array_in_m) ==
    LET distance_array_in_km == [distance_array_in_m EXCEPT !.a = divide_all(@, 1000)]
        len_array == distance_array_in_m.shape[1]
        below == Cardinality({i \in 1 .. Len(distance_array_in_km.a) :
                                 less_than(distance_array_in_km.a[i], 1)})
    IN  IF below > len_array \div 3
        THEN [units |-> "m", values |-> distance_array_in_m]
        ELSE [units |-> "km", values |-> distance_array_in_km]

(* ---------------- select_points ---------------- *)
(* lon / lat arguments are [given, size]; other_dims is the sequence of the *)
(* sizes of the extra dimension arrays; tree is 0 for None, else the id of  *)
(* a cKDTree; nextid is the id the next constructed tree gets.  q is what   *)
(* the external libraries answer for the query points: q.ind the nearest    *)
(* node position per point (tree.query), q.steps the geodesic step lengths. *)
NotGiven == [given |-> FALSE, size |-> 0]
Given(n) == [given |-> TRUE, size |-> n]

sel(obj, dims, method) == [obj EXCEPT !.ops = Append(@, [op |-> "sel", dims |-> dims, method |-> method])]

select_points(xrobj, lon, lat, method, tolerance, tree, return_distance, other_dims, nextid, q) ==
    LET set_len_dims == {lon.size, lat.size} \cup Range(other_dims)
        built == IF tree = 0 THEN 1 ELSE 0
        thetree == IF tree = 0 THEN nextid ELSE tree
    IN  IF Cardinality(set_len_dims) > 1 THEN Raise("ValueError", <<>>)
        ELSE IF method # "nearest" THEN Raise("NotImplementedError", <<>>)
        ELSE IF tolerance # "None"
             THEN [Raise("NotImplementedError", <<>>) EXCEPT !.built = built]
        ELSE LET picked == sel(isel(xrobj, q.ind),
                               {"dim" : i \in 1 .. Len(other_dims)}, method)
                 nofaces == IF picked.hasFaces THEN drop_faces(picked) ELSE picked
                 nd == normalize_distance(distance_along_trajectory(1, q.steps))
                 ret_obj == IF return_distance
                            THEN [nofaces EXCEPT !.dist = [present |-> TRUE, units |-> nd.units,
                                                           values |-> nd.values]]
                            ELSE nofaces
             IN  [Return(ret_obj, <<>>, <<>>) EXCEPT !.built = built, !.usedtree = thetree]

(* ---------------- select ---------------- *)
(* path is [kind, size, extra]: kind "none"; "pair" (a sequence of two      *)
(* coordinate rows); "line" (LineString); "dict" (mapping with lon, lat and *)
(* the extra dimensions); "dict_nolonlat" (mapping without lon/lat);        *)
(* "not2d" (a sequence whose array is not 2-D); "invalid" (anything else).  *)
(* indexers maps the remaining dimension names to "slice" or "value".       *)
NoPath == [kind |-> "none", size |-> 0, extra |-> <<>>]

Invoked(name, r) == [r EXCEPT !.calls = <<name>> \o @]

slices_of(indexers) == {d \in DOMAIN indexers : indexers[d] = "slice"}

apply_indexers_swapped(r, indexers, method) ==
    IF r.status # "ok" THEN r
    ELSE LET slice_indexers == slices_of(indexers)
             labelled == sel(r.obj, (DOMAIN indexers) \ slice_indexers, method)
         IN  [r EXCEPT !.obj = IF slice_indexers # {} THEN sel(labelled, slice_indexers, "None")
                                ELSE labelled]
apply_indexers(r, indexers, method) ==
    IF r.status # "ok" THEN r
    ELSE LET slice_indexers == slices_of(indexers)
             sliced == IF slice_indexers # {} THEN sel(r.obj, slice_indexers, "None") ELSE r.obj
         IN  [r EXCEPT !.obj = sel(sliced, (DOMAIN indexers) \ slice_indexers, method)]

select(xr_obj, method, tolerance, region, path, tree, lon, lat, indexers, nextid, q) ==
    LET lat_indexer == lat.given
        lon_indexer == lon.given
        region_given == region.type # "none"
        path_given == path.kind # "none"
        routed ==
          IF lat_indexer \/ lon_indexer
          THEN IF lat_indexer /\ lon_indexer
               THEN IF method = "nearest"
                    THEN Invoked("select_points",
                                 select_points(xr_obj, lon, lat, method, tolerance, tree,
                                               FALSE, <<>>, nextid, q))
                    ELSE Raise("NotImplementedError", <<>>)
               ELSE Raise("ValueError", <<>>)
          ELSE IF region_given
          THEN Invoked("select_region", select_region(xr_obj, region, None))
          ELSE IF path_given
          THEN IF path.kind \in {"pair", "line", "not2d"}
               THEN IF path.kind = "not2d" THEN Raise("ValueError", <<>>)
                    ELSE Invoked("select_points",
                                 select_points(xr_obj, Given(path.size), Given(path.size), method,
                                               tolerance, tree, TRUE, <<>>, nextid, q))
               ELSE IF path.kind = "dict"
               THEN Invoked("select_points",
                            select_points(xr_obj, Given(path.size), Given(path.size), method,
                                          tolerance, tree, TRUE, path.extra, nextid, q))
               ELSE IF path.kind = "dict_nolonlat" THEN Raise("TypeError", <<>>)
               ELSE Raise("ValueError", <<>>)
          ELSE Return(xr_obj, <<>>, <<>>)
    IN  IF (lat_indexer \/ lon_indexer) /\ (region_given \/ path_given)
        THEN Raise("ValueError", <<>>)
        ELSE apply_indexers(routed, indexers, method)

(* ---------------- inputs ---------------- *)
(* Node i of the mesh sits at lon = i mod 2, lat = i div 2.  A face is a    *)
(* triple of distinct node indices; every vertex set occurs, listed         *)
(* ascending or rotated.                                                    *)
Triples == {t \in Nodes \X Nodes \X Nodes : t[1] < t[2] /\ t[2] < t[3]}

FaceRows == {IF (t[1] + t[2] + t[3]) % 2 = 0 THEN t ELSE <<t[3], t[1], t[2]>> : t \in Triples}

FaceArrays == UNION {[1 .. m -> FaceRows] : m \in 1 .. MaxFaces}

ExampleFaces == <<<<0, 1, 2>>, <<3, 1, 2>>>>

MeshDataset(faces) == [kind |-> "Dataset",
                       data |-> [i \in 1 .. NumNodes |-> i - 1],
                       lon |-> [i \in 1 .. NumNodes |-> (i - 1) % 2],
                       lat |-> [i \in 1 .. NumNodes |-> (i - 1) \div 2],
                       hasFaces |-> TRUE, faces |-> faces, dist |-> NoDist, ops |-> <<>>]

(* xr_dataset[datavar]: a data array has no 'faces' coordinate *)
datavar(ds) == [ds EXCEPT !.kind = "DataArray", !.hasFaces = FALSE, !.faces = <<>>]

(* the objects a caller can pass for the dataset, with the faces argument *)
Inputs(ds) == {<<ds, None>>, <<drop_faces(ds), Some(ds.faces)>>,
               <<datavar(ds), Some(ds.faces)>>, <<datavar(ds), None>>}

(* box bounds reach one step beyond the longitudes and latitudes of the mesh *)
Coords == 0 .. ((NumNodes - 1) \div 2 + 1)

Boxes == {b \in Coords \X Coords \X Coords \X Coords : b[1] <= b[3] /\ b[2] <= b[4]}

NodePoints == {<<i % 2, i \div 2>> : i \in Nodes}

Regions == {Box(b) : b \in Boxes} \cup {Poly(S) : S \in SUBSET NodePoints} \cup {OtherRegion}

NoCall == [fn |-> "none"]
NoRet == [status |-> "none", error |-> "", warnings |-> <<>>, obj |-> NoObj,
          calls |-> <<>>, built |-> 0, usedtree |-> 0]

NoIndexers == [d \in {} |-> "value"]
NoQuery == [ind |-> <<>>, steps |-> <<>>]

(* ---------------- region selection: select_bbox, select_region ---------- *)
InitRegion == /\ xr_dataset \in {MeshDataset(f) : f \in FaceArrays}
              /\ _tree_obj = 0 /\ ntrees = 0 /\ queried = {}
              /\ pc = "idle" /\ call = NoCall /\ ret = NoRet

SelectBbox == /\ pc = "idle"
              /\ \E inp \in Inputs(xr_dataset), b \in Boxes :
                    /\ call' = [fn |-> "select_bbox", xr_obj |-> inp[1], region |-> Box(b),
                                faces |-> inp[2]]
                    /\ ret' = select_bbox(inp[1], b, inp[2])
              /\ pc' = "returned"
              /\ UNCHANGED <<xr_dataset, _tree_obj, ntrees, queried>>

SelectRegion == /\ pc = "idle"
                /\ \E inp \in Inputs(xr_dataset), region \in Regions :
                      /\ call' = [fn |-> "select_region", xr_obj |-> inp[1], region |-> region,
                                  faces |-> inp[2]]
                      /\ ret' = select_region(inp[1], region, inp[2])
                /\ pc' = "returned"
                /\ UNCHANGED <<xr_dataset, _tree_obj, ntrees, queried>>

SelectByRegion == /\ pc = "idle"
                  /\ \E inp \in Inputs(xr_dataset), region \in Regions :
                        /\ call' = [fn |-> "select", xr_obj |-> inp[1], region |-> region,
                                    faces |-> None]
                        /\ ret' = select(inp[1], "nearest", "None", region, NoPath, 0, NotGiven, NotGiven,
                                         NoIndexers, ntrees + 1, NoQuery)
                  /\ pc' = "returned"
                  /\ UNCHANGED <<xr_dataset, _tree_obj, ntrees, queried>>

Done == /\ pc = "returned"
        /\ pc' = "idle" /\ call' = NoCall /\ ret' = NoRet
        /\ UNCHANGED <<xr_dataset, _tree_obj, ntrees, queried>>

NextRegion == SelectBbox \/ SelectRegion \/ SelectByRegion \/ Done

SpecRegion == InitRegion /\ [][NextRegion]_vars

(* ---------------- face compaction on its own ---------------- *)
AnyRows == {<<a, b, c>> : a, b, c \in 0 .. MaxIndex}

InitReindex == /\ xr_dataset = MeshDataset(ExampleFaces)
               /\ _tree_obj = 0 /\ ntrees = 0 /\ queried = {}
               /\ pc = "idle" /\ ret = NoRet
               /\ call \in {[fn |-> "input", cut_faces |-> f] :
                              f \in UNION {[1 .. m -> AnyRows] : m \in 0 .. MaxRows}}

Compact == /\ pc = "idle"
           /\ call' = [call EXCEPT !.fn = "compact"]
           /\ ret' = compact(call.cut_faces)
           /\ pc' = "returned"
           /\ UNCHANGED <<xr_dataset, _tree_obj, ntrees, queried>>

NextReindex == Compact

SpecReindex == InitReindex /\ [][NextReindex]_vars

(* ---------------- properties of region selection ---------------- *)
(* What the call was given: the containment mask of the region over the    *)
(* input's nodes, the input's face array, and the rows of it whose three    *)
(* vertices are all contained.                                              *)
RegionCall == pc = "returned" /\ call.fn \in {"select_bbox", "select_region", "select"}

Mask == contains(call.region, call.xr_obj.lon, call.xr_obj.lat)

InputFaces == getfaces(call.xr_obj, call.faces).val

Survivors == {r \in 1 .. Len(InputFaces) : \A k \in 1 .. 3 : Mask[InputFaces[r][k] + 1]}

SurvivingFaces == LET idx == SortedSeq(Survivors) IN [k \in 1 .. Len(idx) |-> InputFaces[idx[k]]]

Reached == RegionCall /\ ret.status = "ok" /\ count_nonzero(Mask) > 0

(* C1: whenever select_bbox or select_region returns a result carrying a   *)
(* 'faces' coordinate, every entry of it is an index in [0, K), K the size  *)
(* of the result's nod2 dimension.                                          *)
C1_FacesIndexResultNodes ==
    (RegionCall /\ ret.status = "ok" /\ ret.obj.hasFaces)
        => \A r \in 1 .. Len(ret.obj.faces) : \A k \in 1 .. 3 :
              ret.obj.faces[r][k] \in 0 .. (Len(ret.obj.data) - 1)

(* a region selection that kept a face and dropped nodes, so that the       *)
(* retained face had to be renumbered                                       *)
C1_Witness ==
    /\ RegionCall /\ call.fn = "select_region" /\ ret.status = "ok" /\ ret.obj.hasFaces
    /\ Len(ret.obj.faces) >= 1 /\ Len(ret.obj.data) < Len(call.xr_obj.data)
    /\ ret.obj.faces # SurvivingFaces

(* C2: the node list of the compaction is strictly ascending, the remapped  *)
(* array has the shape of the input, and looking every remapped entry up in *)
(* the node list gives back the input array.                                *)
C2_CompactionRoundTrip ==
    (pc = "returned" /\ call.fn = "compact")
        => /\ \A i \in 1 .. (Len(ret.uniq) - 1) : ret.uniq[i] < ret.uniq[i + 1]
           /\ Len(ret.new_faces) = Len(call.cut_faces)
           /\ \A r \in 1 .. Len(call.cut_faces) :
                /\ Len(ret.new_faces[r]) = 3
                /\ \A k \in 1 .. 3 : /\ ret.new_faces[r][k] \in 0 .. (Len(ret.uniq) - 1)
                                     /\ ret.uniq[ret.new_faces[r][k] + 1] = call.cut_faces[r][k]

(* an input with a node repeated across rows and listed out of order *)
C2_Witness ==
    /\ pc = "returned" /\ call.fn = "compact" /\ Len(call.cut_faces) = 2
    /\ call.cut_faces[1][1] > call.cut_faces[1][2]
    /\ call.cut_faces[2][3] = call.cut_faces[1][1]
    /\ Len(ret.uniq) >= 3

(* C3: in select_region with at least one contained node, the retained      *)
(* faces are exactly the input faces whose three vertices are all           *)
(* contained, in input order, and the result's nodes are exactly the        *)
(* vertices of the retained faces.                                          *)
C3_RetainedIffAllThree ==
    (Reached /\ call.fn = "select_region")
        => /\ [r \in 1 .. Len(ret.obj.faces) |->
                 [k \in 1 .. 3 |-> ret.obj.data[ret.obj.faces[r][k] + 1]]] = SurvivingFaces
           /\ Range(ret.obj.data) = {InputFaces[r][k] : r \in Survivors, k \in 1 .. 3}
           /\ Cardinality(Range(ret.obj.data)) = Len(ret.obj.data)

(* a face is retained while another one with a contained vertex is dropped *)
C3_Witness ==
    /\ Reached /\ call.fn = "select_region" /\ Survivors # {}
    /\ \E r \in (1 .. Len(InputFaces)) \ Survivors : \E k \in 1 .. 3 : Mask[InputFaces[r][k] + 1]

(* C4: select_region on a region that contains no node warns and returns   *)
(* the input object as it is.                                               *)
C4_EmptyRegionReturnsInput ==
    (pc = "returned" /\ call.fn = "select_region" /\ call.region.type \in {"box", "polygon"}
       /\ ~ getfaces(call.xr_obj, call.faces).none /\ count_nonzero(Mask) = 0)
        => /\ ret.status = "ok"
           /\ ret.obj = call.xr_obj
           /\ ret.warnings = <<"No points in domain are within region">>

(* a data array with a non-empty face argument and a region holding no node *)
C4_Witness ==
    /\ pc = "returned" /\ call.fn = "select_region" /\ call.region.type = "polygon"
    /\ call.xr_obj.kind = "DataArray" /\ ~ call.faces.none /\ Len(call.faces.val) >= 1
    /\ count_nonzero(Mask) = 0 /\ ret.status = "ok" /\ ret.obj.kind = "DataArray"

(* C5 as stated: a region-type selection returns a 'faces' coordinate only  *)
(* when at least one face survives the selection.                           *)
C5_FacesOnlyIfFaceSurvives ==
    (RegionCall /\ ret.status = "ok" /\ ret.obj.hasFaces) => Survivors # {}

(* C5 amended: select_region and select(region=...) with at least one       *)
(* contained node return a 'faces' coordinate exactly when a face survives; *)
(* with no contained node they return the input with the faces it had;      *)
(* select_bbox always attaches a 'faces' coordinate, also when no face      *)
(* survives.                                                                *)
C5_FacesPresence ==
    /\ (Reached /\ call.fn \in {"select_region", "select"})
          => (ret.obj.hasFaces <=> Survivors # {})
    /\ (RegionCall /\ ret.status = "ok" /\ call.fn \in {"select_region", "select"}
          /\ count_nonzero(Mask) = 0)
          => (ret.obj.hasFaces <=> call.xr_obj.hasFaces)
    /\ (RegionCall /\ ret.status = "ok" /\ call.fn = "select_bbox")
          => ret.obj.hasFaces

(* some nodes are contained but no face is: the result has no 'faces' *)
C5_Witness ==
    /\ Reached /\ call.fn = "select_region" /\ call.xr_obj.hasFaces
    /\ Len(InputFaces) >= 1 /\ Survivors = {} /\ ~ ret.obj.hasFaces

(* ---------------- distances: normalize_distance ---------------- *)
DistVals == {0, 500, 999, 1000, 5000}
StepVals == {500, 5000}

Arrays1D == {[shape |-> <<Len(a)>>, a |-> to_floats(a)] :
               a \in UNION {[1 .. n -> DistVals] : n \in 0 .. MaxLen}}

(* geod.inverse results for a 1-D trajectory of n points, or a batch of     *)
(* r trajectories of n points each                                          *)
Steps1D == UNION {[1 .. (n - 1) -> StepVals] : n \in 1 .. MaxLen}
Steps2D == UNION {[1 .. r -> [1 .. (n - 1) -> StepVals]] : r \in 1 .. MaxTraj, n \in 1 .. MaxLen}

InitDist == /\ xr_dataset = MeshDataset(ExampleFaces)
            /\ _tree_obj = 0 /\ ntrees = 0 /\ queried = {}
            /\ pc = "idle" /\ call = NoCall /\ ret = NoRet

NormalizeDistance == /\ pc = "idle"
                     /\ \E arr \in Arrays1D :
                           /\ call' = [fn |-> "normalize_distance", arr |-> arr]
                           /\ ret' = normalize_distance(arr)
                     /\ pc' = "returned"
                     /\ UNCHANGED <<xr_dataset, _tree_obj, ntrees, queried>>

(* dist = distance_along_trajectory(lon, lat); normalize_distance(dist) *)
TrajectoryDistance ==
    /\ pc = "idle"
    /\ \E t \in ({1} \X Steps1D) \cup ({2} \X Steps2D) :
          LET dist == distance_along_trajectory(t[1], t[2])
          IN  /\ call' = [fn |-> "normalize_distance", arr |-> dist]
              /\ ret' = normalize_distance(dist)
    /\ pc' = "returned"
    /\ UNCHANGED <<xr_dataset, _tree_obj, ntrees, queried>>

NextDist == NormalizeDistance \/ TrajectoryDistance \/ Done

SpecDist == InitDist /\ [][NextDist]_vars

(* C10: normalize_distance returns "m" with the input values if and only   *)
(* if more than one third of the points are below 1000 m, and otherwise     *)
(* "km" with every value divided by 1000, for 1-D arrays and 2-D batches.   *)
C10_UnitByThirdOfPoints ==
    (pc = "returned" /\ call.fn = "normalize_distance")
        => LET pts == call.arr.a
               below == Cardinality({i \in 1 .. Len(pts) : pts[i].num < 1000 * pts[i].den})
               out == ret.values.a
           IN  /\ (ret.units = "m") <=> (3 * below > Len(pts))
               /\ (ret.units = "m") => ret.values = call.arr
               /\ (ret.units # "m") =>
                     /\ ret.units = "km"
                     /\ ret.values.shape = call.arr.shape
                     /\ \A i \in 1 .. Len(pts) :
                           1000 * out[i].num * pts[i].den = pts[i].num * out[i].den

(* ---------------- accessors: FESOMDataset, FESOMDataArray -------------- *)
(* A cKDTree is identified by the order of its construction: the k-th tree *)
(* built over the dataset's nodes has id k; 0 stands for None.  ntrees      *)
(* counts the constructions, queried collects the ids of the trees that     *)
(* answered a tree.query.                                                   *)
_build_tree(nextid) == nextid

_tree(tree_obj, nextid) == IF tree_obj # 0 THEN [tree |-> tree_obj, built |-> 0]
                           ELSE [tree |-> _build_tree(nextid), built |-> 1]

Methods == {"nearest", "pad"}
Tolerances == {"None", "0.5"}

Sizes == 1 .. MaxPts

LonLatArgs(n) == {NotGiven, Given(n)}

SelectRegions == {NoRegion, Box(<<0, 0, 0, 0>>), Box(<<0, 0, 1, 1>>), Poly({}), OtherRegion}

Paths(n) == {NoPath}
              \cup {[kind |-> k, size |-> n, extra |-> <<>>] :
                      k \in {"pair", "line", "dict", "dict_nolonlat", "not2d", "invalid"}}
              \cup {[kind |-> "dict", size |-> n, extra |-> <<m>>] : m \in {n, n + 1}}

OtherDims(n) == {<<>>, <<n>>, <<n + 1>>}

IndexerSets == {NoIndexers, [d \in {"time"} |-> "slice"], [d \in {"nz1"} |-> "value"],
                [d \in {"time", "nz1"} |-> IF d = "time" THEN "slice" ELSE "value"]}

(* answers of tree.query and geod.inverse for n query points *)
QueryAnswers(n) == {[ind |-> [i \in 1 .. n |-> node], steps |-> [i \in 1 .. (n - 1) |-> step]] :
                       node \in {0, NumNodes - 1}, step \in StepVals}

Args(fn, method, tolerance, region, path, lon, lat, indexers, other_dims) ==
    [fn |-> fn, method |-> method, tolerance |-> tolerance, region |-> region, path |-> path,
     lon |-> lon, lat |-> lat, indexers |-> indexers, other_dims |-> other_dims]

InitSelect == /\ xr_dataset = MeshDataset(ExampleFaces)
              /\ _tree_obj = 0 /\ ntrees = 0 /\ queried = {}
              /\ pc = "idle" /\ call = NoCall /\ ret = NoRet

Account(r, t) == /\ ret' = r
                 /\ _tree_obj' = t.tree
                 /\ ntrees' = ntrees + t.built + r.built
                 /\ queried' = IF r.usedtree # 0 THEN queried \cup {r.usedtree} ELSE queried
                 /\ pc' = "returned"
                 /\ UNCHANGED xr_dataset

(* FESOMDataset.select *)
DatasetSelect ==
    /\ pc = "idle" /\ ntrees < MaxTrees
    /\ \E method \in Methods, tolerance \in Tolerances, region \in SelectRegions, n \in Sizes,
          indexers \in IndexerSets :
       \E path \in Paths(n), lon \in LonLatArgs(n), lat \in LonLatArgs(n), q \in QueryAnswers(n) :
          /\ call' = Args("Dataset.select", method, tolerance, region, path, lon, lat, indexers, <<>>)
          /\ Account(select(xr_dataset, method, tolerance, region, path, 0, lon, lat, indexers,
                            ntrees + 1, q),
                     [tree |-> _tree_obj, built |-> 0])

(* FESOMDataset.select_points *)
DatasetSelectPoints ==
    /\ pc = "idle" /\ ntrees < MaxTrees
    /\ \E method \in Methods, tolerance \in Tolerances, n \in Sizes :
       \E lat \in {Given(n), Given(n + 1)}, other_dims \in OtherDims(n), q \in QueryAnswers(n) :
          LET t == _tree(_tree_obj, ntrees + 1)
          IN  /\ call' = Args("Dataset.select_points", method, tolerance, NoRegion, NoPath,
                              Given(n), lat, NoIndexers, other_dims)
              /\ Account(select_points(xr_dataset, Given(n), lat, method, tolerance, t.tree, TRUE,
                                       other_dims, ntrees + t.built + 1, q), t)

(* FESOMDataArray.select *)
DataArraySelect ==
    /\ pc = "idle" /\ ntrees < MaxTrees
    /\ \E method \in Methods, tolerance \in Tolerances, region \in SelectRegions, n \in Sizes,
          indexers \in IndexerSets :
       \E path \in Paths(n), lon \in LonLatArgs(n), lat \in LonLatArgs(n), q \in QueryAnswers(n) :
          LET sel_obj == assign_faces(to_dataset(datavar(xr_dataset)), xr_dataset.faces)
              t == _tree(_tree_obj, ntrees + 1)
          IN  /\ call' = Args("DataArray.select", method, tolerance, region, path, lon, lat,
                              indexers, <<>>)
              /\ Account(select(sel_obj, method, tolerance, region, path, t.tree, lon, lat,
                                indexers, ntrees + t.built + 1, q), t)

(* FESOMDataArray.select_points *)
DataArraySelectPoints ==
    /\ pc = "idle" /\ ntrees < MaxTrees
    /\ \E method \in Methods, tolerance \in Tolerances, n \in Sizes :
       \E lat \in {Given(n), Given(n + 1)}, other_dims \in OtherDims(n), q \in QueryAnswers(n) :
          LET t == _tree(_tree_obj, ntrees + 1)
          IN  /\ call' = Args("DataArray.select_points", method, tolerance, NoRegion, NoPath,
                              Given(n), lat, NoIndexers, other_dims)
              /\ Account(select_points(datavar(xr_dataset), Given(n), lat, method, tolerance,
                                       t.tree, TRUE, other_dims, ntrees + t.built + 1, q), t)

(* the caller takes the result; the accessor and its tree stay *)
Finish == /\ pc = "returned"
          /\ pc' = "idle" /\ call' = NoCall /\ ret' = NoRet
          /\ UNCHANGED <<xr_dataset, _tree_obj, ntrees, queried>>

NextSelect == DatasetSelect \/ DatasetSelectPoints \/ DataArraySelect \/ DataArraySelectPoints
                \/ Finish

SpecSelect == InitSelect /\ [][NextSelect]_vars

(* ---------------- properties of select and the accessors --------------- *)
SelectCall == pc = "returned" /\ call.fn \in {"Dataset.select", "DataArray.select"}

AnyCall == pc = "returned" /\ call.fn \in {"Dataset.select", "DataArray.select",
                                           "Dataset.select_points", "DataArray.select_points"}

RegionGiven == call.region.type # "none"
PathGiven == call.path.kind # "none"
LonLatGiven == call.lon.given \/ call.lat.given

(* C6: select raises a conflict error, before any selector runs, for every *)
(* call that gives a region together with lon and/or lat, and for every     *)
(* call that gives a region together with a path.                           *)
C6_RegionConflictsRejected ==
    (SelectCall /\ RegionGiven /\ (LonLatGiven \/ PathGiven))
        => (ret.status = "error" /\ ret.error = "ValueError" /\ ret.calls = <<>>)

(* C7: over any sequence of accessor calls the nearest-neighbour tree of   *)
(* the dataset is constructed at most once, and all tree queries are        *)
(* answered by that one tree.                                               *)
C7_TreeBuiltAtMostOnce == ntrees <= 1 /\ Cardinality(queried) <= 1

(* C8: a selection call that asks for a method other than 'nearest' or for *)
(* a tolerance fails and returns no result (the claim names a               *)
(* not-implemented error; any failure is accepted here).                    *)
C8_UnsupportedRequestFails ==
    (AnyCall /\ (call.method # "nearest" \/ call.tolerance # "None")) => ret.status = "error"

(* C9: routing of a non-conflicting select request.  Both lon and lat:     *)
(* the point matcher only (method 'nearest').  Exactly one of them: an      *)
(* error and no selector.  Otherwise a region: the region selector.         *)
(* Otherwise a path: the point matcher on the path's lon/lat arrays (an     *)
(* unusable path is an error with no selector).  Whenever the call returns, *)
(* the slice indexers were applied to the reduced result first and the      *)
(* remaining label indexers, with the method, last.                         *)
NonConflicting == /\ ~ (RegionGiven /\ (LonLatGiven \/ PathGiven))
                  /\ ~ (PathGiven /\ LonLatGiven)

UsablePath == call.path.kind \in {"pair", "line", "dict"}

SliceDims == {d \in DOMAIN call.indexers : call.indexers[d] = "slice"}

C9_Routing ==
    (SelectCall /\ NonConflicting)
        => /\ (call.lon.given /\ call.lat.given /\ call.method = "nearest")
                 => ret.calls = <<"select_points">>
           /\ (call.lon.given /\ call.lat.given /\ call.method # "nearest")
                 => (ret.status = "error" /\ ret.calls = <<>>)
           /\ (call.lon.given # call.lat.given)
                 => (ret.status = "error" /\ ret.calls = <<>>)
           /\ (~ LonLatGiven /\ RegionGiven) => ret.calls = <<"select_region">>
           /\ (~ LonLatGiven /\ ~ RegionGiven /\ PathGiven /\ UsablePath)
                 => /\ ret.calls = <<"select_points">>
                    /\ ret.status = "ok" => Len(ret.obj.data) = call.path.size
           /\ (~ LonLatGiven /\ ~ RegionGiven /\ PathGiven /\ ~ UsablePath)
                 => (ret.status = "error" /\ ret.calls = <<>>)
           /\ (~ LonLatGiven /\ ~ RegionGiven /\ ~ PathGiven) => ret.calls = <<>>
           /\ ret.status = "ok"
                 => LET ops == ret.obj.ops
                        n == Len(ops)
                        before == IF ret.calls = <<"select_points">> THEN 1 ELSE 0
                    IN  /\ n = before + (IF SliceDims # {} THEN 2 ELSE 1)
                        /\ ops[n] = [op |-> "sel", dims |-> (DOMAIN call.indexers) \ SliceDims,
                                     method |-> call.method]
                        /\ SliceDims # {}
                              => ops[n - 1] = [op |-> "sel", dims |-> SliceDims, method |-> "None"]

(* a path request with a slice and a label indexer that returned *)
C9_Witness ==
    /\ SelectCall /\ NonConflicting /\ call.path.kind = "pair" /\ ret.status = "ok"
    /\ ret.calls = <<"select_points">> /\ Len(ret.obj.ops) = 3
    /\ DOMAIN call.indexers = {"time", "nz1"}

====
